---- MODULE Spec2Model ----
(***************************************************************************)
(* Model of the cargo-php command line tool (crates/cli/src/lib.rs):       *)
(* the install, remove and stubs workflows, the target resolver find_ext   *)
(* and the build driver build_ext.                                         *)
(*                                                                         *)
(* Text is modelled as a sequence of tokens (string fragments): a file     *)
(* name is e.g. <<"lib", "a", ".so">>, a configuration file is the flat    *)
(* token sequence of its bytes with the token "\n" between lines.          *)
(***************************************************************************)
EXTENDS Integers, Sequences, FiniteSets, TLC

VARIABLES
    ini,      \* configuration files: path -> content (token sequence) or NoFile
    libs,     \* regular files present in the extension directories
    dirs,     \* which of the install directories exist as directories
    pc,       \* position of the running install/remove handler
    cur,      \* arguments and locals of the running handler
    pre,      \* files as they were when the running handler started
    prev,     \* arguments of the preceding run when it was a successful remove
    chain,    \* disable flags of the installs applied to an initially empty file
    edited,   \* configuration files some finished run has rewritten
    spc,        \* position of the running stubs handler
    scur,       \* locals of the stubs handler
    cliVersion, \* ext_php_rs::VERSION of the build of the tool
    released,   \* the module descriptor has been handed to the stub renderer
    output,     \* what the stubs handler has printed and written
    bpc,        \* position of build_ext
    requested,  \* the target build_ext was called for
    consumed,   \* the messages build_ext has taken from the stream
    artifact,   \* the local `artifact` of build_ext
    bresult,    \* what build_ext returned
    child,      \* the `cargo build` child process
    fpc,        \* position of find_ext
    fcur        \* the locals and the result of find_ext

cfgVars == <<ini, libs, dirs, pc, cur, pre, prev, chain, edited>>
stubVars == <<spc, scur, cliVersion, released, output>>
buildVars == <<bpc, requested, consumed, artifact, bresult, child>>
findVars == <<fpc, fcur>>
vars == <<cfgVars, stubVars, buildVars, findVars>>

-----------------------------------------------------------------------------
(* Bounds of the model *)

MaxChain == 3
MaxLines == 2
MaxVer == 2
MaxPre == 1
MaxEvents == 3
MaxTargets == 3

-----------------------------------------------------------------------------
(* Text helpers *)

None == "none"
NL == "\n"
NoFile == <<"<absent>">>

\* str::starts_with on token sequences
StartsWith(line, pat) ==
    Len(pat) <= Len(line) /\ SubSeq(line, 1, Len(pat)) = pat

\* str::contains on token sequences: pat occurs as a contiguous run of line
Contains(line, pat) ==
    \E i \in 0..(Len(line) - Len(pat)) :
        SubSeq(line, i + 1, i + Len(pat)) = pat

\* position of the first newline token of s, 0 when there is none
FirstNL(s) ==
    IF \E i \in 1..Len(s) : s[i] = NL
    THEN CHOOSE i \in 1..Len(s) : s[i] = NL /\ \A j \in 1..(i - 1) : s[j] # NL
    ELSE 0

\* BufRead::lines: split at newlines; a final newline yields no empty last line
RECURSIVE ReadLines(_)
ReadLines(s) ==
    IF s = <<>> THEN <<>>
    ELSE LET i == FirstNL(s)
         IN IF i = 0 THEN <<s>>
            ELSE <<SubSeq(s, 1, i - 1)>> \o ReadLines(SubSeq(s, i + 1, Len(s)))

\* [String]::join("\n")
RECURSIVE Join(_)
Join(lines) ==
    IF lines = <<>> THEN <<>>
    ELSE IF Len(lines) = 1 THEN lines[1]
    ELSE lines[1] \o <<NL>> \o Join(Tail(lines))

\* String::replace("-", "_")
ReplaceHyphens(name) ==
    [i \in 1..Len(name) |-> IF name[i] = "-" THEN "_" ELSE name[i]]

DLL_PREFIX == <<"lib">>
DLL_SUFFIX == <<".so">>
DLL_EXTENSION == ".so"
ExtTokens == {".so", ".rlib", ".d"}

\* Path::extension of a file name: the part after the last dot, when the
\* name has a stem in front of it
Extension(name) ==
    IF Len(name) >= 2 /\ name[Len(name)] \in ExtTokens
    THEN name[Len(name)] ELSE None

-----------------------------------------------------------------------------
(* Cargo targets, build events and paths *)

Target(name, types) == [name |-> name, crate_types |-> types]
NoTarget == Target(<<>>, <<>>)

Path(dir, name) == [dir |-> dir, name |-> name]
NoPath == Path(None, <<>>)

Artifact(target, files) ==
    [kind |-> "artifact", target |-> target, files |-> files, success |-> FALSE]
BuildFinished(success) ==
    [kind |-> "finished", target |-> NoTarget, files |-> <<>>, success |-> success]
OtherMessage == [kind |-> "other", target |-> NoTarget, files |-> <<>>, success |-> FALSE]
\* a line that is not a JSON message: parse_stream hands it on as a text line
TextLine == [kind |-> "text", target |-> NoTarget, files |-> <<>>, success |-> FALSE]
\* a line the reader could not read: parse_stream yields an error for it
ReadError == [kind |-> "ioerr", target |-> NoTarget, files |-> <<>>, success |-> FALSE]
NoArtifact == [kind |-> "none", target |-> NoTarget, files |-> <<>>, success |-> FALSE]

-----------------------------------------------------------------------------
(* find_ext *)

\* a filter that also lets the other library crate types through
QualifiesLibrary(target) ==
    \E i \in 1..Len(target.crate_types) :
        target.crate_types[i] \in {"dylib", "cdylib", "lib", "rlib"}

\* the filter closure of find_ext: a target that builds a dynamic library
Qualifies(target) ==
    \E i \in 1..Len(target.crate_types) :
        target.crate_types[i] = "dylib" \/ target.crate_types[i] = "cdylib"

\* the candidate list of find_ext
LibraryTargets(project) == SelectSeq(project.targets, Qualifies)

\* find_ext on a project description; sel is what the selection prompt
\* answers when it is asked: an index from 0, or -1 when the prompt fails.
\* selects counts the invocations of the selection prompt.
FindExt(project, sel) ==
    LET targets == LibraryTargets(project)
    IN IF project.meta # "ok"
       THEN [tag |-> "MetadataFailed", target |-> NoTarget, selects |-> 0]
       ELSE IF Len(targets) = 0
       THEN [tag |-> "NoLibraryTargets", target |-> NoTarget, selects |-> 0]
       ELSE IF Len(targets) = 1
       THEN [tag |-> "ok", target |-> targets[1], selects |-> 0]
       ELSE IF sel < 0
       THEN [tag |-> "PromptFailed", target |-> NoTarget, selects |-> 1]
       ELSE [tag |-> "ok", target |-> targets[sel + 1], selects |-> 1]

\* what the selection prompt can answer for a project
Selections(project) ==
    IF Len(LibraryTargets(project)) > 1
    THEN (-1)..(Len(LibraryTargets(project)) - 1)
    ELSE {0}

-----------------------------------------------------------------------------
(* build_ext *)

\* the loop without the comparison of the artifact's target
LoopStepAnyTarget(recorded, message, target) ==
    IF message.kind = "ioerr"
    THEN [artifact |-> recorded, ctl |-> "InvalidMessage"]
    ELSE IF message.kind = "artifact"
    THEN [artifact |-> message, ctl |-> "continue"]
    ELSE IF message.kind = "finished"
    THEN [artifact |-> recorded,
          ctl |-> IF ~message.success THEN "CompilationFailed" ELSE "break"]
    ELSE [artifact |-> recorded, ctl |-> "continue"]

\* the loop that leaves at BuildFinished without looking at its success flag
LoopStepAnyFinish(recorded, message, target) ==
    IF message.kind = "ioerr"
    THEN [artifact |-> recorded, ctl |-> "InvalidMessage"]
    ELSE IF message.kind = "artifact"
    THEN [artifact |-> IF message.target = target THEN message ELSE recorded,
          ctl |-> "continue"]
    ELSE IF message.kind = "finished"
    THEN [artifact |-> recorded, ctl |-> "break"]
    ELSE [artifact |-> recorded, ctl |-> "continue"]

\* one turn of the message loop of build_ext: the recorded artifact after
\* the message and how the loop goes on
LoopStep(recorded, message, target) ==
    IF message.kind = "ioerr"
    THEN [artifact |-> recorded, ctl |-> "InvalidMessage"]
    ELSE IF message.kind = "artifact"
    THEN [artifact |-> IF message.target = target THEN message ELSE recorded,
          ctl |-> "continue"]
    ELSE IF message.kind = "finished"
    THEN [artifact |-> recorded,
          ctl |-> IF ~message.success THEN "CompilationFailed" ELSE "break"]
    ELSE [artifact |-> recorded, ctl |-> "continue"]

\* the scan that keeps the last file with the dynamic library extension
LastLibrary(files) ==
    IF \E i \in 1..Len(files) : Extension(files[i].name) = DLL_EXTENSION
    THEN CHOOSE i \in 1..Len(files) :
            /\ Extension(files[i].name) = DLL_EXTENSION
            /\ \A j \in (i + 1)..Len(files) : Extension(files[j].name) # DLL_EXTENSION
    ELSE 0

\* the first file of the list with the dynamic library extension, 0 if none
FirstLibrary(files) ==
    IF \E i \in 1..Len(files) : Extension(files[i].name) = DLL_EXTENSION
    THEN CHOOSE i \in 1..Len(files) :
            /\ Extension(files[i].name) = DLL_EXTENSION
            /\ \A j \in 1..(i - 1) : Extension(files[j].name) # DLL_EXTENSION
    ELSE 0

\* the tail of build_ext, after the message loop
ResolveArtifact(recorded) ==
    IF recorded = NoArtifact
    THEN [tag |-> "ArtifactNotCompiled", path |-> NoPath]
    ELSE IF FirstLibrary(recorded.files) = 0
    THEN [tag |-> "NoLibraryInArtifact", path |-> NoPath]
    ELSE [tag |-> "ok", path |-> recorded.files[FirstLibrary(recorded.files)]]

\* the message loop of build_ext run over a whole stream
RECURSIVE MessageLoop(_, _, _)
MessageLoop(recorded, stream, target) ==
    IF stream = <<>> THEN ResolveArtifact(recorded)
    ELSE LET step == LoopStep(recorded, Head(stream), target)
         IN IF step.ctl = "continue"
            THEN MessageLoop(step.artifact, Tail(stream), target)
            ELSE IF step.ctl = "break" THEN ResolveArtifact(step.artifact)
            ELSE [tag |-> step.ctl, path |-> NoPath]

\* build_ext on the stream of messages the compiler prints
BuildExt(target, stream) == MessageLoop(NoArtifact, stream, target)

-----------------------------------------------------------------------------
(* Version strings, and the stubs handler and the build driver at rest *)

\* a version string: its dot separated parts (-1 for a part that is no
\* number) and its pre-release tag (0 for none, a greater tag is a later one)
VersionString(nums, tag) == [nums |-> nums, pre |-> tag]
NoVersion == VersionString(<<>>, 0)

StubsIdle ==
    [ext |-> None, ext_version |-> NoVersion, gate |-> "none", result |-> "running"]
NoOutput == [printed |-> FALSE, files |-> {}]

StubsOff ==
    /\ spc = "off"
    /\ scur = StubsIdle
    /\ cliVersion = NoVersion
    /\ released = FALSE
    /\ output = NoOutput

NoResult == [tag |-> "none", path |-> NoPath]

BuildOff ==
    /\ bpc = "off"
    /\ requested = NoTarget
    /\ consumed = <<>>
    /\ artifact = NoArtifact
    /\ bresult = NoResult
    /\ child = "none"

Project(meta, targets) == [meta |-> meta, targets |-> targets]
NoProject == Project("none", <<>>)

\* the locals of find_ext before it has run
NoFound ==
    [project |-> NoProject, targets |-> <<>>, chosen |-> -1, selects |-> 0,
     tag |-> "none", target |-> NoTarget]

FindOff ==
    /\ fpc = "off"
    /\ fcur = NoFound

-----------------------------------------------------------------------------
(* The file system and the inputs of the install and remove workflows *)

IniPaths == {"ini_default", "ini_custom"}
ExtDirs == {"dir_default", "dir_custom"}

\* the library target of the modelled project and a binary target
TargetA == Target(<<"a">>, <<"cdylib">>)
TargetBin == Target(<<"tool">>, <<"bin">>)

CfgProjects ==
    { Project("ok", <<TargetBin, TargetA>>),
      Project("ok", <<TargetBin>>) }

\* the name cargo gives the dynamic library of a target
LibraryName(target) == DLL_PREFIX \o ReplaceHyphens(target.name) \o DLL_SUFFIX

\* what `cargo build` can print for a target in the workflows
CfgStreams(target) ==
    { << Artifact(target, << Path("target", <<"lib", "a", ".rlib">>),
                             Path("target", LibraryName(target)) >>),
         BuildFinished(TRUE) >>,
      << Artifact(target, << Path("target", LibraryName(target)) >>),
         BuildFinished(FALSE) >> }

\* the extension line of a file name, as Install::handle formats it
ExtLine(name) == <<"extension=">> \o name

\* lines found in configuration files before the tool is run
SampleLines ==
    { ExtLine(LibraryName(TargetA)),
      <<";">> \o ExtLine(LibraryName(TargetA)),
      <<"; see ">> \o LibraryName(TargetA),
      ExtLine(<<"lib", "g", ".so">>) }

RECURSIVE SeqsUpTo(_, _)
SeqsUpTo(S, n) ==
    IF n = 0 THEN {<<>>}
    ELSE LET shorter == SeqsUpTo(S, n - 1)
         IN shorter \cup {Append(q, x) : q \in shorter, x \in S}

\* contents a configuration file can have before the tool is run
InitContents ==
    {Join(ls) : ls \in SeqsUpTo(SampleLines, MaxLines)}
        \cup { ExtLine(<<"lib", "g", ".so">>) \o <<NL>> }

Args(kind, proj, installDir, iniPath, disable, phpConfig) ==
    [kind |-> kind, proj |-> proj, install_dir |-> installDir,
     ini_path |-> iniPath, disable |-> disable, php_config |-> phpConfig]
NoArgs == Args("none", NoProject, None, None, FALSE, None)

\* the locals of a handler that has not started
Idle ==
    [args |-> NoArgs, target |-> NoTarget, ext_path |-> NoPath, ext_dir |-> None,
     php_ini |-> None, helper |-> 0, answer |-> None, copied |-> FALSE,
     wrote |-> FALSE, result |-> "running"]

NoChain == [path |-> None, file |-> <<>>, flags |-> <<>>]
DeadChain == [path |-> "dead", file |-> <<>>, flags |-> <<>>]

InitCfg ==
    /\ ini \in [IniPaths -> InitContents \cup {NoFile}]
    /\ ini["ini_custom"] \in {NoFile, <<>>}
    /\ libs = {}
    /\ dirs \in {ExtDirs, {"dir_default"}}
    /\ pc = "idle"
    /\ cur = Idle
    /\ pre = [ini |-> ini, libs |-> libs]
    /\ prev = NoArgs
    /\ chain = DeadChain
    /\ edited = {}
    /\ StubsOff
    /\ BuildOff
    /\ FindOff

\* both configuration files empty or absent, and the installs recorded
InitRoundTrip ==
    /\ ini \in [IniPaths -> {NoFile, <<>>}]
    /\ libs = {}
    /\ dirs \in {ExtDirs, {"dir_default"}}
    /\ pc = "idle"
    /\ cur = Idle
    /\ pre = [ini |-> ini, libs |-> libs]
    /\ prev = NoArgs
    /\ chain = NoChain
    /\ edited = {}
    /\ StubsOff
    /\ BuildOff
    /\ FindOff

\* a handler returns with an error or with Ok(())
Finish(locals, result) ==
    /\ cur' = [locals EXCEPT !.result = result]
    /\ pc' = "done"

-----------------------------------------------------------------------------
(* PhpConfig and the files *)

\* PhpConfig::get_ext_dir: the directory the helper prints
GetExtDir(phpConfig) ==
    IF phpConfig = "ok" THEN [ok |-> TRUE, dir |-> "dir_default"]
    ELSE [ok |-> FALSE, dir |-> None]

\* PhpConfig::get_php_ini: the php.ini path the helper's output leads to,
\* and the files after the call, which creates a missing php.ini
GetPhpIni(phpConfig, files) ==
    IF phpConfig = "ok"
    THEN [ok |-> TRUE, path |-> "ini_default",
          files |-> IF files["ini_default"] = NoFile
                    THEN [files EXCEPT !["ini_default"] = <<>>]
                    ELSE files]
    ELSE [ok |-> FALSE, path |-> None, files |-> files]

\* the pair computed with the helper asked for php.ini in every case
ResolvePathsHelperIni(installDir, iniPath, phpConfig, files) ==
    LET dir == GetExtDir(phpConfig)
        php == GetPhpIni(phpConfig, files)
        first ==
            IF installDir # None
            THEN [ok |-> php.ok, ext_dir |-> installDir, php_ini |-> php.path,
                  files |-> php.files, helper |-> 1]
            ELSE IF ~dir.ok
            THEN [ok |-> FALSE, ext_dir |-> None, php_ini |-> None,
                  files |-> files, helper |-> 1]
            ELSE [ok |-> php.ok, ext_dir |-> dir.dir, php_ini |-> php.path,
                  files |-> php.files, helper |-> 2]
    IN IF first.ok /\ iniPath # None
       THEN [first EXCEPT !.php_ini = iniPath]
       ELSE first

\* the (ext_dir, php_ini) pair of both handlers, with the files afterwards
\* and the number of calls of the helper
ResolvePaths(installDir, iniPath, phpConfig, files) ==
    LET dir == GetExtDir(phpConfig)
        php == GetPhpIni(phpConfig, files)
        first ==
            IF installDir # None
            THEN [ok |-> TRUE, ext_dir |-> installDir, php_ini |-> None,
                  files |-> files, helper |-> 0]
            ELSE IF ~dir.ok
            THEN [ok |-> FALSE, ext_dir |-> None, php_ini |-> None,
                  files |-> files, helper |-> 1]
            ELSE [ok |-> php.ok, ext_dir |-> dir.dir, php_ini |-> php.path,
                  files |-> php.files, helper |-> 2]
    IN IF first.ok /\ iniPath # None
       THEN [first EXCEPT !.php_ini = iniPath]
       ELSE first

\* OpenOptions::new().read(true).write(true).create(true).truncate(true).open:
\* the content of the file once it is open
OpenOptions(content, create, truncate) ==
    IF content = NoFile THEN (IF create THEN <<>> ELSE NoFile)
    ELSE IF truncate THEN <<>> ELSE content

\* the open call without the truncate option
OpenIniKeep(content) == OpenOptions(content, TRUE, FALSE)

\* the open call of both handlers
OpenIni(content) == OpenOptions(content, TRUE, TRUE)

\* File::write at the offset the handle is at
WriteAt(content, offset, bytes) ==
    SubSeq(content, 1, offset) \o bytes
        \o SubSeq(content, offset + Len(bytes) + 1, Len(content))

\* the lines of a read that do not contain the reference string
Retained(lines, ref) == SelectSeq(lines, LAMBDA line : ~Contains(line, ref))

\* the rewrite of Install::handle with the disable flag read the wrong way round
InstallRewriteFlipped(content, extName, disable) ==
    LET opened == OpenIni(content)
        ext_line == ExtLine(extName)
        new_lines == Retained(ReadLines(opened), ext_line)
        last == IF disable THEN ext_line ELSE <<";">> \o ext_line
    IN WriteAt(opened, Len(opened), Join(Append(new_lines, last)))

\* the rewrite of php.ini in Install::handle: the content of the file after it
InstallRewrite(content, extName, disable) ==
    LET opened == OpenIni(content)
        ext_line == ExtLine(extName)
        new_lines == Retained(ReadLines(opened), ext_line)
        last == IF disable THEN <<";">> \o ext_line ELSE ext_line
    IN WriteAt(opened, Len(opened), Join(Append(new_lines, last)))

\* the rewrite of php.ini in Remove::handle: the content of the file after it
RemoveRewrite(content, extFile) ==
    LET opened == OpenIni(content)
        new_lines == Retained(ReadLines(opened), extFile)
    IN WriteAt(opened, Len(opened), Join(new_lines))

-----------------------------------------------------------------------------
(* Install::handle.  An option of the command line is drawn where the      *)
(* handler first reads it.                                                 *)

\* find_ext and build_ext
InstallBuild ==
    /\ pc = "idle"
    /\ pre' = [ini |-> ini, libs |-> libs]
    /\ \E proj \in CfgProjects :
         \E sel \in Selections(proj) :
            LET found == FindExt(proj, sel)
                locals == [Idle EXCEPT !.args.kind = "install", !.args.proj = proj,
                                       !.target = found.target]
            IN IF found.tag # "ok" THEN Finish(locals, found.tag)
               ELSE \E stream \in CfgStreams(found.target) :
                       LET built == BuildExt(found.target, stream)
                       IN IF built.tag # "ok" THEN Finish(locals, built.tag)
                          ELSE /\ cur' = [locals EXCEPT !.ext_path = built.path]
                               /\ pc' = "i_paths"
    /\ UNCHANGED <<ini, libs, dirs, prev, chain, edited>>
    /\ UNCHANGED <<stubVars, buildVars, findVars>>

\* the extension directory and the php.ini path
InstallPaths ==
    /\ pc = "i_paths"
    /\ \E installDir \in {None, "dir_custom"}, iniPath \in {None, "ini_custom"},
          phpConfig \in {"ok", "bad"} :
          LET r == ResolvePaths(installDir, iniPath, phpConfig, ini)
              locals == [cur EXCEPT !.args.install_dir = installDir,
                                    !.args.ini_path = iniPath,
                                    !.args.php_config = phpConfig,
                                    !.ext_dir = r.ext_dir, !.php_ini = r.php_ini,
                                    !.helper = r.helper]
          IN /\ ini' = r.files
             /\ IF r.ok THEN cur' = locals /\ pc' = "i_confirm"
                ELSE Finish(locals, "PhpConfigFailed")
    /\ UNCHANGED <<libs, dirs, pre, prev, chain, edited>>
    /\ UNCHANGED <<stubVars, buildVars, findVars>>

\* a prompt whose answer is read and then not acted on
InstallConfirmIgnored ==
    /\ pc = "i_confirm"
    /\ \E answer \in {"yes", "no", "error"} :
          /\ pc' = "i_copy"
          /\ cur' = [cur EXCEPT !.answer = answer]
    /\ UNCHANGED <<ini, libs, dirs, pre, prev, chain, edited>>
    /\ UNCHANGED <<stubVars, buildVars, findVars>>

\* the confirmation prompt
InstallConfirm ==
    /\ pc = "i_confirm"
    /\ \E answer \in {"yes", "no", "error"} :
          LET locals == [cur EXCEPT !.answer = answer]
          IN IF answer = "yes" THEN pc' = "i_copy" /\ cur' = locals
             ELSE IF answer = "no" THEN Finish(locals, "Cancelled")
             ELSE Finish(locals, "PromptFailed")
    /\ UNCHANGED <<ini, libs, dirs, pre, prev, chain, edited>>
    /\ UNCHANGED <<stubVars, buildVars, findVars>>

\* where Install::handle copies the library to
CopyDestination(extDir, extName, directories) ==
    IF extDir \in directories THEN Path(extDir, extName) ELSE Path(extDir, <<>>)

\* std::fs::copy of the library
InstallCopy ==
    /\ pc = "i_copy"
    /\ \E copyOk \in BOOLEAN :
          IF copyOk
          THEN /\ libs' = libs \cup {CopyDestination(cur.ext_dir, cur.ext_path.name, dirs)}
               /\ cur' = [cur EXCEPT !.copied = TRUE]
               /\ pc' = "i_ini"
          ELSE /\ libs' = libs
               /\ Finish(cur, "CopyFailed")
    /\ UNCHANGED <<ini, dirs, pre, prev, chain, edited>>
    /\ UNCHANGED <<stubVars, buildVars, findVars>>

\* the update of php.ini
InstallIni ==
    /\ pc = "i_ini"
    /\ IF cur.php_ini # None
       THEN \E disable \in BOOLEAN :
               /\ ini' = [ini EXCEPT ![cur.php_ini] =
                             InstallRewrite(@, cur.ext_path.name, disable)]
               /\ Finish([cur EXCEPT !.args.disable = disable, !.wrote = TRUE], "ok")
       ELSE /\ ini' = ini
            /\ Finish(cur, "ok")
    /\ UNCHANGED <<libs, dirs, pre, prev, chain, edited>>
    /\ UNCHANGED <<stubVars, buildVars, findVars>>

-----------------------------------------------------------------------------
(* Remove::handle *)

\* the file name Remove::handle expects the library to have
ExtFile(target) == DLL_PREFIX \o ReplaceHyphens(target.name) \o DLL_SUFFIX

\* find_ext
RemoveFind ==
    /\ pc = "idle"
    /\ pre' = [ini |-> ini, libs |-> libs]
    /\ \E proj \in CfgProjects :
         \E sel \in Selections(proj) :
            LET found == FindExt(proj, sel)
                locals == [Idle EXCEPT !.args.kind = "remove", !.args.proj = proj,
                                       !.target = found.target]
            IN IF found.tag # "ok" THEN Finish(locals, found.tag)
               ELSE cur' = locals /\ pc' = "r_paths"
    /\ UNCHANGED <<ini, libs, dirs, prev, chain, edited>>
    /\ UNCHANGED <<stubVars, buildVars, findVars>>

\* the extension directory and the php.ini path
RemovePaths ==
    /\ pc = "r_paths"
    /\ \E installDir \in {None, "dir_custom"}, iniPath \in {None, "ini_custom"},
          phpConfig \in {"ok", "bad"} :
          LET r == ResolvePaths(installDir, iniPath, phpConfig, ini)
              locals == [cur EXCEPT !.args.install_dir = installDir,
                                    !.args.ini_path = iniPath,
                                    !.args.php_config = phpConfig,
                                    !.ext_dir = r.ext_dir, !.php_ini = r.php_ini,
                                    !.helper = r.helper]
          IN /\ ini' = r.files
             /\ IF r.ok THEN cur' = locals /\ pc' = "r_check"
                ELSE Finish(locals, "PhpConfigFailed")
    /\ UNCHANGED <<libs, dirs, pre, prev, chain, edited>>
    /\ UNCHANGED <<stubVars, buildVars, findVars>>

\* Path::is_file in a directory listing where only the directory was looked up
IsFileOrParent(path, files, directories) ==
    path \in files \/ path.dir \in directories

\* Path::is_file
IsFile(path, files, directories) == path \in files

\* a handler that goes on to the prompt without the check
RemoveCheckSkipped ==
    /\ pc = "r_check"
    /\ cur' = [cur EXCEPT !.ext_path = Path(cur.ext_dir, ExtFile(cur.target))]
    /\ pc' = "r_confirm"
    /\ UNCHANGED <<ini, libs, dirs, pre, prev, chain, edited>>
    /\ UNCHANGED <<stubVars, buildVars, findVars>>

\* the check that the library is installed
RemoveCheck ==
    /\ pc = "r_check"
    /\ LET ext_path == Path(cur.ext_dir, ExtFile(cur.target))
       IN IF ~IsFile(ext_path, libs, dirs) THEN Finish(cur, "NotInstalled")
          ELSE cur' = [cur EXCEPT !.ext_path = ext_path] /\ pc' = "r_confirm"
    /\ UNCHANGED <<ini, libs, dirs, pre, prev, chain, edited>>
    /\ UNCHANGED <<stubVars, buildVars, findVars>>

\* the confirmation prompt
RemoveConfirm ==
    /\ pc = "r_confirm"
    /\ \E answer \in {"yes", "no", "error"} :
          LET locals == [cur EXCEPT !.answer = answer]
          IN IF answer = "yes" THEN pc' = "r_delete" /\ cur' = locals
             ELSE IF answer = "no" THEN Finish(locals, "Cancelled")
             ELSE Finish(locals, "PromptFailed")
    /\ UNCHANGED <<ini, libs, dirs, pre, prev, chain, edited>>
    /\ UNCHANGED <<stubVars, buildVars, findVars>>

\* std::fs::remove_file of the library
RemoveDelete ==
    /\ pc = "r_delete"
    /\ \E deleteOk \in BOOLEAN :
          IF deleteOk
          THEN /\ libs' = libs \ {cur.ext_path}
               /\ cur' = cur
               /\ pc' = "r_ini"
          ELSE /\ libs' = libs
               /\ Finish(cur, "RemoveFailed")
    /\ UNCHANGED <<ini, dirs, pre, prev, chain, edited>>
    /\ UNCHANGED <<stubVars, buildVars, findVars>>

\* the update of php.ini
RemoveIni ==
    /\ pc = "r_ini"
    /\ IF cur.php_ini # None /\ ini[cur.php_ini] # NoFile
       THEN /\ ini' = [ini EXCEPT ![cur.php_ini] = RemoveRewrite(@, ExtFile(cur.target))]
            /\ Finish([cur EXCEPT !.wrote = TRUE], "ok")
       ELSE /\ ini' = ini
            /\ Finish(cur, "ok")
    /\ UNCHANGED <<libs, dirs, pre, prev, chain, edited>>
    /\ UNCHANGED <<stubVars, buildVars, findVars>>

-----------------------------------------------------------------------------
(* The handler returns to the shell *)

\* the record of the installs applied to an initially empty configuration
\* file, kept while nothing else has rewritten that file
NextChain ==
    IF chain = DeadChain \/ cur.result # "ok" \/ ~cur.wrote THEN chain
    ELSE IF cur.args.kind # "install"
    THEN (IF chain.path = cur.php_ini THEN DeadChain ELSE chain)
    ELSE IF chain = NoChain
    THEN (IF cur.php_ini \notin edited /\ pre.ini[cur.php_ini] \in {NoFile, <<>>}
          THEN [path |-> cur.php_ini, file |-> cur.ext_path.name,
                flags |-> <<cur.args.disable>>]
          ELSE DeadChain)
    ELSE IF chain.path # cur.php_ini THEN chain
    ELSE IF chain.file = cur.ext_path.name /\ Len(chain.flags) < MaxChain
    THEN [chain EXCEPT !.flags = Append(@, cur.args.disable)]
    ELSE DeadChain

Return ==
    /\ pc = "done"
    /\ pc' = "idle"
    /\ cur' = Idle
    /\ pre' = [ini |-> ini, libs |-> libs]
    /\ prev' = IF cur.args.kind = "remove" /\ cur.result = "ok" THEN cur.args ELSE NoArgs
    /\ chain' = NextChain
    /\ edited' = IF cur.wrote THEN edited \cup {cur.php_ini} ELSE edited
    /\ UNCHANGED <<ini, libs, dirs>>
    /\ UNCHANGED <<stubVars, buildVars, findVars>>

NextCfg ==
    \/ InstallBuild \/ InstallPaths \/ InstallConfirm \/ InstallCopy \/ InstallIni
    \/ RemoveFind \/ RemovePaths \/ RemoveCheck \/ RemoveConfirm \/ RemoveDelete
    \/ RemoveIni
    \/ Return

Spec == InitCfg /\ [][NextCfg]_vars

SpecRoundTrip == InitRoundTrip /\ [][NextCfg]_vars

-----------------------------------------------------------------------------
(* Properties of the configuration file *)

\* the lines of a configuration file; a file that does not exist has none
LinesOf(content) == IF content = NoFile THEN <<>> ELSE ReadLines(content)

\* the number of lines of a file that reference a file name
RefCount(content, name) ==
    Cardinality({i \in 1..Len(LinesOf(content)) : Contains(LinesOf(content)[i], name)})

\* q is p with some entries left out
RECURSIVE IsSubsequence(_, _)
IsSubsequence(q, p) ==
    IF q = <<>> THEN TRUE
    ELSE IF p = <<>> THEN FALSE
    ELSE IF Head(q) = Head(p) THEN IsSubsequence(Tail(q), Tail(p))
    ELSE IsSubsequence(q, Tail(p))

FileA == LibraryName(TargetA)

\* a handler has returned Ok(()) after rewriting its configuration file
Rewrote(kind) ==
    pc = "done" /\ cur.result = "ok" /\ cur.wrote /\ cur.args.kind = kind

\* the reference string the finished handler matched lines against
ReferenceString ==
    IF cur.args.kind = "install" THEN ExtLine(cur.ext_path.name) ELSE ExtFile(cur.target)

\* the line a finished install appends
NewLine ==
    IF cur.args.disable THEN <<";">> \o ExtLine(cur.ext_path.name)
    ELSE ExtLine(cur.ext_path.name)

\* C1: once install or remove has rewritten a configuration file, at most one
\* of its lines references the extension's file name (the disabled form
\* counts); after a successful install against the file exactly one line
\* does, after a successful remove against it none does.
C1_OneReference ==
    \A p \in IniPaths :
        /\ (p \in edited \/ (pc = "done" /\ cur.wrote /\ cur.php_ini = p))
              => RefCount(ini[p], FileA) <= 1
        /\ (pc = "done" /\ cur.result = "ok" /\ cur.php_ini = p
              /\ cur.args.kind = "install") => RefCount(ini[p], FileA) = 1
        /\ (pc = "done" /\ cur.result = "ok" /\ cur.php_ini = p
              /\ cur.args.kind = "remove") => RefCount(ini[p], FileA) = 0

\* an install has rewritten a file that a remove before it had rewritten
C1_Witness ==
    /\ Rewrote("install")
    /\ cur.php_ini \in edited
    /\ prev # NoArgs
    /\ prev.ini_path = cur.args.ini_path
    /\ RefCount(ini[cur.php_ini], FileA) = 1

\* C2: install and remove keep, in their order, every line of the
\* configuration file that does not contain the reference string.
C2_RetainsOtherLines ==
    (Rewrote("install") \/ Rewrote("remove")) =>
        IsSubsequence(Retained(LinesOf(pre.ini[cur.php_ini]), ReferenceString),
                      LinesOf(ini[cur.php_ini]))

\* C3: after a successful install the file is the retained lines followed by
\* the new extension line, disabled or not as asked; after a successful
\* remove it is the retained lines alone.
C3_ExactContent ==
    /\ Rewrote("install") =>
          LinesOf(ini[cur.php_ini]) =
              Append(Retained(LinesOf(pre.ini[cur.php_ini]), ReferenceString), NewLine)
    /\ Rewrote("remove") =>
          LinesOf(ini[cur.php_ini]) =
              Retained(LinesOf(pre.ini[cur.php_ini]), ReferenceString)

\* C4: after a sequence of installs of one file name against a configuration
\* file that started empty, the file is the single extension line in the
\* form the last install's disable flag asks for; so enable, disable, enable
\* ends with the one line `extension=f`.
C4_LastFlagDecides ==
    (pc = "idle" /\ chain.path \in IniPaths) =>
        LinesOf(ini[chain.path]) =
            << IF chain.flags[Len(chain.flags)]
               THEN <<";">> \o ExtLine(chain.file) ELSE ExtLine(chain.file) >>

\* enable, disable, enable have been applied to an empty file
C4_Witness ==
    /\ pc = "idle"
    /\ chain.path \in IniPaths
    /\ chain.flags = <<FALSE, TRUE, FALSE>>
    /\ ini[chain.path] = ExtLine(FileA)

\* C5: a remove that finds no library file at the expected path fails with
\* the "not installed" error; a remove that repeats the arguments of the
\* successful remove before it fails with that error.
C5_NotInstalled ==
    (pc = "done" /\ cur.args.kind = "remove") =>
        /\ (cur.ext_dir # None
              /\ Path(cur.ext_dir, LibraryName(cur.target)) \notin pre.libs)
              => cur.result = "NotInstalled"
        /\ (prev # NoArgs /\ cur.args = prev) => cur.result = "NotInstalled"

\* a remove has been repeated right after it succeeded
C5_Witness ==
    /\ pc = "done"
    /\ cur.args.kind = "remove"
    /\ prev # NoArgs
    /\ cur.args = prev
    /\ cur.result = "NotInstalled"

\* C6: a remove never creates a configuration file: a file that does not
\* exist when remove starts does not exist while it runs or when it ends.
C6_RemoveNeverCreates ==
    cur.args.kind = "remove" =>
        \A p \in IniPaths : pre.ini[p] = NoFile => ini[p] = NoFile

-----------------------------------------------------------------------------
(* The version gate of Stubs::handle *)

NoField == -1

\* the version strings of the model: full versions, with or without a
\* pre-release tag, partial versions and strings that are no version
FullVersions ==
    {VersionString(<<a, b, c>>, tag) : a \in 0..MaxVer, b \in 0..MaxVer,
                                       c \in 0..MaxVer, tag \in 0..MaxPre}
OddVersions ==
    { VersionString(<<NoField>>, 0), VersionString(<<1>>, 0),
      VersionString(<<1, 1>>, 0), VersionString(<<1, NoField, 0>>, 0),
      VersionString(<<>>, 0) }
VersionStrings == FullVersions \cup OddVersions

Numeric(nums) == \A i \in 1..Len(nums) : nums[i] >= 0

\* semver::Version::from_str: major.minor.patch with an optional tag
ParseVersion(str) ==
    IF Len(str.nums) = 3 /\ Numeric(str.nums)
    THEN [ok |-> TRUE, major |-> str.nums[1], minor |-> str.nums[2],
          patch |-> str.nums[3], pre |-> str.pre]
    ELSE [ok |-> FALSE, major |-> 0, minor |-> 0, patch |-> 0, pre |-> 0]

\* semver::VersionReq::from_str of a string without an operator: the caret
\* comparator of a full or partial version
ParseVersionReq(str) ==
    IF Len(str.nums) \in 1..3 /\ Numeric(str.nums) /\ (str.pre # 0 => Len(str.nums) = 3)
    THEN [ok |-> TRUE, major |-> str.nums[1],
          minor |-> IF Len(str.nums) >= 2 THEN str.nums[2] ELSE NoField,
          patch |-> IF Len(str.nums) = 3 THEN str.nums[3] ELSE NoField,
          pre |-> str.pre]
    ELSE [ok |-> FALSE, major |-> 0, minor |-> NoField, patch |-> NoField, pre |-> 0]

\* the order of pre-release tags: no tag is later than every tag
PreAtLeast(a, b) == IF a = 0 THEN TRUE ELSE b # 0 /\ a >= b

\* the caret comparator applied to a version
MatchesCaret(cmp, ver) ==
    IF ver.major # cmp.major THEN FALSE
    ELSE IF cmp.minor = NoField THEN TRUE
    ELSE IF cmp.patch = NoField
    THEN (IF cmp.major > 0 THEN ver.minor >= cmp.minor ELSE ver.minor = cmp.minor)
    ELSE IF cmp.major > 0 /\ ver.minor # cmp.minor THEN ver.minor > cmp.minor
    ELSE IF cmp.major > 0 /\ ver.patch # cmp.patch THEN ver.patch > cmp.patch
    ELSE IF cmp.major = 0 /\ cmp.minor > 0 /\ ver.minor # cmp.minor THEN FALSE
    ELSE IF cmp.major = 0 /\ cmp.minor > 0 /\ ver.patch # cmp.patch
    THEN ver.patch > cmp.patch
    ELSE IF cmp.major = 0 /\ cmp.minor = 0
            /\ (ver.minor # cmp.minor \/ ver.patch # cmp.patch) THEN FALSE
    ELSE PreAtLeast(ver.pre, cmp.pre)

\* a pre-release version is only let through by a comparator that names a
\* pre-release of the same major.minor.patch
PreIsCompatible(cmp, ver) ==
    cmp.major = ver.major /\ cmp.minor = ver.minor /\ cmp.patch = ver.patch
        /\ cmp.pre # 0

\* a comparison that looks at the major version only, and at the minor
\* version below 1.0
MatchesSameMajor(req, ver) ==
    ver.major = req.major /\ (req.major = 0 /\ req.minor # NoField => ver.minor = req.minor)

\* cli_version.matches(&ext_version)
Matches(req, ver) ==
    MatchesCaret(req, ver) /\ (ver.pre = 0 \/ PreIsCompatible(req, ver))

\* the gate without the comparison of the versions
VersionGateParseOnly(cli, ext) ==
    IF ~ParseVersionReq(cli).ok THEN "CliVersionParse"
    ELSE IF ~ParseVersion(ext).ok THEN "ExtVersionParse"
    ELSE "passed"

\* a gate that reports a version that does not parse as incompatible
VersionGateLumped(cli, ext) ==
    IF ~ParseVersionReq(cli).ok \/ ~ParseVersion(ext).ok THEN "Incompatible"
    ELSE IF ~Matches(ParseVersionReq(cli), ParseVersion(ext)) THEN "Incompatible"
    ELSE "passed"

\* the version gate: how the three checks of the two version strings end
VersionGate(cli, ext) ==
    IF ~ParseVersionReq(cli).ok THEN "CliVersionParse"
    ELSE IF ~ParseVersion(ext).ok THEN "ExtVersionParse"
    ELSE IF ~Matches(ParseVersionReq(cli), ParseVersion(ext)) THEN "Incompatible"
    ELSE "passed"

-----------------------------------------------------------------------------
(* Stubs::handle *)

InitStubs ==
    /\ ini = [p \in IniPaths |-> NoFile]
    /\ libs = {}
    /\ dirs = ExtDirs
    /\ pc = "off"
    /\ cur = Idle
    /\ pre = [ini |-> ini, libs |-> libs]
    /\ prev = NoArgs
    /\ chain = DeadChain
    /\ edited = {}
    /\ spc = "idle"
    /\ scur = StubsIdle
    /\ cliVersion \in VersionStrings
    /\ released = FALSE
    /\ output = NoOutput
    /\ BuildOff
    /\ FindOff

StubsFinish(locals, result) ==
    /\ scur' = [locals EXCEPT !.result = result]
    /\ spc' = "done"

\* the path of the extension: given, or found and built; it must be a file
StubsLocate ==
    /\ spc = "idle"
    /\ \E ext \in {None, "ext_file", "ext_missing"} :
          LET locals == [StubsIdle EXCEPT !.ext = ext]
          IN IF ext = None
             THEN \E proj \in CfgProjects :
                     \E sel \in Selections(proj) :
                        LET found == FindExt(proj, sel)
                        IN IF found.tag # "ok" THEN StubsFinish(locals, found.tag)
                           ELSE \E stream \in CfgStreams(found.target) :
                                   LET built == BuildExt(found.target, stream)
                                   IN IF built.tag # "ok"
                                      THEN StubsFinish(locals, built.tag)
                                      ELSE scur' = locals /\ spc' = "load"
             ELSE IF ext = "ext_missing" THEN StubsFinish(locals, "NotAFile")
             ELSE scur' = locals /\ spc' = "load"
    /\ UNCHANGED <<cliVersion, released, output>>
    /\ UNCHANGED <<cfgVars, buildVars, findVars>>

\* Ext::load and Ext::describe: the description carries the version the
\* extension was compiled with
StubsLoad ==
    /\ spc = "load"
    /\ \/ StubsFinish(scur, "LoadFailed")
       \/ \E version \in VersionStrings :
             /\ scur' = [scur EXCEPT !.ext_version = version]
             /\ spc' = "gate"
    /\ UNCHANGED <<cliVersion, released, output>>
    /\ UNCHANGED <<cfgVars, buildVars, findVars>>

\* the check that the versions of the tool and of the extension agree
StubsGate ==
    /\ spc = "gate"
    /\ LET gate == VersionGate(cliVersion, scur.ext_version)
           locals == [scur EXCEPT !.gate = gate]
       IN IF gate = "passed" THEN scur' = locals /\ spc' = "render"
          ELSE StubsFinish(locals, gate)
    /\ UNCHANGED <<cliVersion, released, output>>
    /\ UNCHANGED <<cfgVars, buildVars, findVars>>

\* result.module.to_stub()
StubsRender ==
    /\ spc = "render"
    /\ released' = TRUE
    /\ \E rendered \in BOOLEAN :
          IF rendered THEN scur' = scur /\ spc' = "write"
          ELSE StubsFinish(scur, "StubFailed")
    /\ UNCHANGED <<cliVersion, output>>
    /\ UNCHANGED <<cfgVars, buildVars, findVars>>

\* the stubs go to stdout, or to the file given or the one in the current
\* directory
StubsWrite ==
    /\ spc = "write"
    /\ \E stdout \in BOOLEAN, out \in {None, "out_given"}, ioOk \in BOOLEAN :
          IF stdout
          THEN /\ out = None
               /\ ioOk
               /\ output' = [output EXCEPT !.printed = TRUE]
               /\ StubsFinish(scur, "ok")
          ELSE IF ioOk
          THEN /\ output' = [output EXCEPT !.files =
                                @ \cup {IF out # None THEN out ELSE "cwd_stubs_php"}]
               /\ StubsFinish(scur, "ok")
          ELSE /\ output' = output
               /\ StubsFinish(scur, "WriteFailed")
    /\ UNCHANGED <<cliVersion, released>>
    /\ UNCHANGED <<cfgVars, buildVars, findVars>>

\* the handler returns to the shell
StubsReturn ==
    /\ spc = "done"
    /\ spc' = "idle"
    /\ scur' = StubsIdle
    /\ released' = FALSE
    /\ output' = NoOutput
    /\ UNCHANGED cliVersion
    /\ UNCHANGED <<cfgVars, buildVars, findVars>>

NextStubs ==
    \/ StubsLocate \/ StubsLoad \/ StubsGate \/ StubsRender \/ StubsWrite
    \/ StubsReturn

SpecStubs == InitStubs /\ [][NextStubs]_vars

-----------------------------------------------------------------------------
(* Properties of the version gate *)

\* the versions of a run that reached the gate, when both are full versions
GateDecided == scur.gate # "none"
BothWellFormed ==
    /\ ParseVersion(cliVersion).ok
    /\ ParseVersion(scur.ext_version).ok

\* major, minor, patch of a version in the order of precedence
TripleLess(a, b) ==
    \/ a.major < b.major
    \/ a.major = b.major /\ a.minor < b.minor
    \/ a.major = b.major /\ a.minor = b.minor /\ a.patch < b.patch
SameTriple(a, b) == a.major = b.major /\ a.minor = b.minor /\ a.patch = b.patch

\* the first version that the caret requirement of c no longer admits
NextBreaking(c) ==
    IF c.major > 0 THEN [major |-> c.major + 1, minor |-> 0, patch |-> 0]
    ELSE IF c.minor > 0 THEN [major |-> 0, minor |-> c.minor + 1, patch |-> 0]
    ELSE [major |-> 0, minor |-> 0, patch |-> c.patch + 1]

\* e satisfies the caret requirement ^c
InCaretRange(c, e) ==
    /\ TripleLess(c, e) \/ (SameTriple(c, e) /\ PreAtLeast(e.pre, c.pre))
    /\ TripleLess(e, NextBreaking(c))
    /\ e.pre # 0 => (c.pre # 0 /\ SameTriple(c, e))

\* C7 as the claim states it: the gate accepts the extension's version
\* exactly when it has the caller's major version and, for major 0, the
\* caller's minor version.
C7_SameMajorRule ==
    (GateDecided /\ BothWellFormed) =>
        LET c == ParseVersion(cliVersion)
            e == ParseVersion(scur.ext_version)
        IN (scur.gate = "passed") <=>
              (c.major = e.major /\ (c.major = 0 => c.minor = e.minor))

\* C7, amended: the gate accepts the extension's version e exactly when e
\* satisfies the caret requirement of the caller's version c: e is not older
\* than c and older than the next breaking version after c (the next major
\* version; below 1.0 the next minor version; below 0.1 the next patch
\* version), and a pre-release e is accepted only for a pre-release c of the
\* same major.minor.patch.
C7_CaretRule ==
    (GateDecided /\ BothWellFormed) =>
        ((scur.gate = "passed") <=>
            InCaretRange(ParseVersion(cliVersion), ParseVersion(scur.ext_version)))

\* the gate has let a later minor version of the same major version through
C7_Witness ==
    /\ scur.gate = "passed"
    /\ cliVersion = VersionString(<<1, 1, 0>>, 0)
    /\ scur.ext_version = VersionString(<<1, 2, 2>>, 0)

\* C8: the stub renderer is given the module descriptor, and stubs are
\* printed or written, only in a run whose two version strings parsed and
\* were found compatible; a run that ends with a parse error or with the
\* incompatibility error has released nothing and produced no output.
C8_FailsClosed ==
    /\ (released \/ output # NoOutput) =>
          /\ ParseVersionReq(cliVersion).ok
          /\ ParseVersion(scur.ext_version).ok
          /\ Matches(ParseVersionReq(cliVersion), ParseVersion(scur.ext_version))
    /\ output # NoOutput => released
    /\ (spc = "done"
          /\ (~ParseVersionReq(cliVersion).ok \/ ~ParseVersion(scur.ext_version).ok
                \/ ~Matches(ParseVersionReq(cliVersion), ParseVersion(scur.ext_version))))
          => (~released /\ output = NoOutput)

\* a run has loaded an extension of an incompatible version and has ended
C8_Witness ==
    /\ spc = "done"
    /\ scur.result = "Incompatible"
    /\ scur.ext_version \in FullVersions
    /\ ~released
    /\ output = NoOutput

-----------------------------------------------------------------------------
(* build_ext, one message at a time *)

TargetB == Target(<<"x", "-", "a">>, <<"rlib", "dylib">>)
BuildTargets == {TargetA, TargetB}

\* the file lists of the artifact messages
FileLists ==
    { <<>>,
      << Path("target", <<"lib", "a", ".rlib">>) >>,
      << Path("target", <<"lib", "a", ".so">>) >>,
      << Path("target", <<"lib", "a", ".rlib">>), Path("target", <<"lib", "a", ".so">>),
         Path("deps", <<"lib", "a", ".so">>) >>,
      << Path("deps", <<"lib", "a", ".so">>), Path("target", <<"lib", "a", ".so">>) >> }

\* what the message stream of `cargo build` can yield
Messages ==
    {Artifact(t, files) : t \in BuildTargets, files \in FileLists}
        \cup {BuildFinished(TRUE), BuildFinished(FALSE), OtherMessage, TextLine, ReadError}

InitBuild ==
    /\ ini = [p \in IniPaths |-> NoFile]
    /\ libs = {}
    /\ dirs = ExtDirs
    /\ pc = "off"
    /\ cur = Idle
    /\ pre = [ini |-> ini, libs |-> libs]
    /\ prev = NoArgs
    /\ chain = DeadChain
    /\ edited = {}
    /\ StubsOff
    /\ bpc = "idle"
    /\ requested = NoTarget
    /\ consumed = <<>>
    /\ artifact = NoArtifact
    /\ bresult = NoResult
    /\ child = "none"
    /\ FindOff

\* Command::spawn with the standard output piped
BuildSpawn ==
    /\ bpc = "idle"
    /\ \E target \in BuildTargets :
          /\ requested' = target
          /\ \/ bpc' = "loop" /\ child' = "running" /\ bresult' = bresult
             \/ /\ bpc' = "done"
                /\ child' = child
                /\ bresult' = [tag |-> "SpawnFailed", path |-> NoPath]
    /\ UNCHANGED <<consumed, artifact>>
    /\ UNCHANGED <<cfgVars, stubVars, findVars>>

\* the child closes its output and exits
ChildExit ==
    /\ child = "running"
    /\ child' = "exited"
    /\ UNCHANGED <<bpc, requested, consumed, artifact, bresult>>
    /\ UNCHANGED <<cfgVars, stubVars, findVars>>

\* the loop takes the next message of the stream
BuildMessage ==
    /\ bpc = "loop"
    /\ Len(consumed) < MaxEvents
    /\ \E message \in Messages :
          LET step == LoopStep(artifact, message, requested)
          IN /\ consumed' = Append(consumed, message)
             /\ artifact' = step.artifact
             /\ IF step.ctl = "continue" THEN bpc' = "loop" /\ bresult' = bresult
                ELSE IF step.ctl = "break" THEN bpc' = "resolve" /\ bresult' = bresult
                ELSE /\ bpc' = "done"
                     /\ bresult' = [tag |-> step.ctl, path |-> NoPath]
    /\ UNCHANGED <<requested, child>>
    /\ UNCHANGED <<cfgVars, stubVars, findVars>>

\* a loop that takes the end of the stream without BuildFinished for a
\* build that produced nothing
BuildStreamEndUnfinished ==
    /\ bpc = "loop"
    /\ child = "exited"
    /\ bpc' = "done"
    /\ bresult' = [tag |-> "ArtifactNotCompiled", path |-> NoPath]
    /\ UNCHANGED <<requested, consumed, artifact, child>>
    /\ UNCHANGED <<cfgVars, stubVars, findVars>>

\* the stream ends: the child has closed its output
BuildStreamEnd ==
    /\ bpc = "loop"
    /\ child = "exited"
    /\ bpc' = "resolve"
    /\ UNCHANGED <<requested, consumed, artifact, bresult, child>>
    /\ UNCHANGED <<cfgVars, stubVars, findVars>>

\* the library path is looked up in the recorded artifact and returned
BuildResolve ==
    /\ bpc = "resolve"
    /\ bresult' = ResolveArtifact(artifact)
    /\ bpc' = "done"
    /\ UNCHANGED <<requested, consumed, artifact, child>>
    /\ UNCHANGED <<cfgVars, stubVars, findVars>>

NextBuild ==
    \/ BuildSpawn \/ ChildExit \/ BuildMessage \/ BuildStreamEnd \/ BuildResolve

SpecBuild == InitBuild /\ [][NextBuild]_vars

-----------------------------------------------------------------------------
(* Properties of the build driver *)

\* the positions of the consumed messages that are artifacts of the
\* requested target
MatchingAt ==
    {i \in 1..Len(consumed) :
        consumed[i].kind = "artifact" /\ consumed[i].target = requested}

\* the last of them
LastMatching ==
    consumed[CHOOSE i \in MatchingAt : \A j \in MatchingAt : j <= i]

\* the loop was left by a failed build or by a line that could not be read
LoopFailed ==
    \E i \in 1..Len(consumed) :
        consumed[i] = BuildFinished(FALSE) \/ consumed[i] = ReadError

\* C9 as the claim states it: the recorded artifact is the last consumed
\* artifact message of the requested target, never one of another target,
\* and a build that consumed no such message fails with "artifact not
\* produced".
C9_LastMatchOrNotProduced ==
    /\ artifact = (IF MatchingAt = {} THEN NoArtifact ELSE LastMatching)
    /\ (bpc = "done" /\ child # "none" /\ MatchingAt = {})
          => bresult.tag = "ArtifactNotCompiled"

\* C9, amended: the recorded artifact is the last consumed artifact message
\* of the requested target, never one of another target; a build that
\* consumed no such message and whose loop was not left by a failed
\* BuildFinished or an unreadable line fails with "artifact not produced".
C9_LastMatch ==
    /\ artifact = (IF MatchingAt = {} THEN NoArtifact ELSE LastMatching)
    /\ artifact # NoArtifact => artifact.target = requested
    /\ (bpc = "done" /\ child # "none" /\ MatchingAt = {} /\ ~LoopFailed)
          => bresult.tag = "ArtifactNotCompiled"

\* the build for one target has seen that target's artifact twice, another
\* target's artifact after it, and has finished
C9_Witness ==
    /\ bpc = "done"
    /\ Cardinality(MatchingAt) = 2
    /\ consumed[Len(consumed)].kind = "artifact"
    /\ consumed[Len(consumed)].target # requested
    /\ consumed[1] # consumed[2]
    /\ artifact = consumed[2]

\* the only artifact message was another target's and the build has failed
\* with "artifact not produced"
C9_WitnessNotProduced ==
    /\ bpc = "done"
    /\ Len(consumed) = 2
    /\ consumed[1].kind = "artifact"
    /\ consumed[1].target # requested
    /\ consumed[2] = BuildFinished(TRUE)
    /\ bresult.tag = "ArtifactNotCompiled"

\* C10: once BuildFinished(success=false) is consumed the build has failed
\* with "compilation failed" and returns no path, whatever artifacts came
\* before; a consumed BuildFinished is the last message consumed.
C10_FinishedDecides ==
    /\ (\E i \in 1..Len(consumed) : consumed[i] = BuildFinished(FALSE))
          => /\ bpc = "done"
             /\ bresult = [tag |-> "CompilationFailed", path |-> NoPath]
    /\ \A i \in 1..Len(consumed) :
          consumed[i].kind = "finished" => i = Len(consumed)
    /\ (\E i \in 1..Len(consumed) : consumed[i] = BuildFinished(TRUE))
          => bpc \in {"resolve", "done"}

\* a failed build after an artifact of the requested target with a library
C10_Witness ==
    /\ Len(consumed) = 2
    /\ consumed[1].kind = "artifact"
    /\ consumed[1].target = requested
    /\ FirstLibrary(consumed[1].files) # 0
    /\ consumed[2] = BuildFinished(FALSE)
    /\ bresult.tag = "CompilationFailed"

\* C11: a stream of the compiler with a malformed line, at any position,
\* makes the build fail and return no path.
C11_MalformedFails ==
    (bpc = "done" /\ \E i \in 1..Len(consumed) : consumed[i].kind \in {"text", "ioerr"})
        => (bresult.tag # "ok" /\ bresult.path = NoPath)

\* C12: build_ext returns only when the child has closed its output and
\* has exited.
C12_ReturnsAfterChild ==
    (bpc = "done" /\ bresult.tag # "SpawnFailed") => child = "exited"

\* the file names of a list that have the dynamic library extension
LibrariesAt(files) ==
    {i \in 1..Len(files) : Extension(files[i].name) = DLL_EXTENSION}

\* the loop was left without an error and an artifact is recorded
Resolved ==
    bpc = "done" /\ child # "none" /\ ~LoopFailed /\ artifact # NoArtifact

\* C13: with an artifact recorded, the path returned is the first file of
\* the artifact's list that has the dynamic library extension; when no file
\* has it the build fails with "could not locate library path in artifact"
\* and returns no path.
C13_FirstLibraryFile ==
    Resolved =>
        IF LibrariesAt(artifact.files) = {}
        THEN bresult = [tag |-> "NoLibraryInArtifact", path |-> NoPath]
        ELSE /\ bresult.tag = "ok"
             /\ \E i \in LibrariesAt(artifact.files) :
                   /\ \A j \in LibrariesAt(artifact.files) : i <= j
                   /\ bresult.path = artifact.files[i]

\* the artifact lists two libraries after another file and the first of the
\* two was returned
C13_Witness ==
    /\ Resolved
    /\ Len(artifact.files) = 3
    /\ LibrariesAt(artifact.files) = {2, 3}
    /\ artifact.files[2] # artifact.files[3]
    /\ bresult = [tag |-> "ok", path |-> artifact.files[2]]

\* the stream ended and no BuildFinished was consumed
EndedUnfinished ==
    /\ bpc = "done"
    /\ child # "none"
    /\ \A i \in 1..Len(consumed) :
          consumed[i].kind # "finished" /\ consumed[i] # ReadError

\* C17 as the claim states it: when the stream ends without BuildFinished
\* the build succeeds if an artifact of the requested target with a library
\* file was seen and fails with "artifact not produced" otherwise.
C17_EndSucceedsOrNotProduced ==
    EndedUnfinished =>
        IF \E i \in MatchingAt : LibrariesAt(consumed[i].files) # {}
        THEN bresult.tag = "ok"
        ELSE bresult.tag = "ArtifactNotCompiled"

\* C17, amended: when the stream ends without BuildFinished the recorded
\* artifact alone decides: the build succeeds with a library path of the
\* last artifact of the requested target when that artifact has a library
\* file, fails with "could not locate library path in artifact" when it has
\* none, and fails with "artifact not produced" when no artifact of the
\* requested target was seen.
C17_EndDecidedByArtifact ==
    EndedUnfinished =>
        IF MatchingAt = {}
        THEN bresult = [tag |-> "ArtifactNotCompiled", path |-> NoPath]
        ELSE IF LibrariesAt(LastMatching.files) = {}
        THEN bresult = [tag |-> "NoLibraryInArtifact", path |-> NoPath]
        ELSE /\ bresult.tag = "ok"
             /\ \E i \in LibrariesAt(LastMatching.files) :
                   bresult.path = LastMatching.files[i]

\* a build has succeeded on a stream that ended after the artifact, without
\* BuildFinished
C17_Witness ==
    /\ EndedUnfinished
    /\ child = "exited"
    /\ Len(consumed) = 1
    /\ consumed[1].kind = "artifact"
    /\ bresult.tag = "ok"

-----------------------------------------------------------------------------
(* find_ext, step by step *)

TargetC == Target(<<"c">>, <<"dylib">>)
TargetLib == Target(<<"l">>, <<"lib">>)
FindTargets == {TargetA, TargetB, TargetC, TargetBin, TargetLib}

\* the sequences of at most n different elements of S
RECURSIVE DistinctSeqs(_, _)
DistinctSeqs(S, n) ==
    IF n = 0 THEN {<<>>}
    ELSE LET shorter == DistinctSeqs(S, n - 1)
         IN shorter \cup
            UNION { {Append(q, x) : x \in {y \in S : \A i \in 1..Len(q) : q[i] # y}} :
                       q \in shorter }

\* the root packages `cargo metadata` can describe
FindProjects == {Project("ok", ts) : ts \in DistinctSeqs(FindTargets, MaxTargets)}

InitFind ==
    /\ ini = [p \in IniPaths |-> NoFile]
    /\ libs = {}
    /\ dirs = ExtDirs
    /\ pc = "off"
    /\ cur = Idle
    /\ pre = [ini |-> ini, libs |-> libs]
    /\ prev = NoArgs
    /\ chain = DeadChain
    /\ edited = {}
    /\ StubsOff
    /\ BuildOff
    /\ fpc = "idle"
    /\ fcur = NoFound

FindFinish(locals, tag, target) ==
    /\ fcur' = [locals EXCEPT !.tag = tag, !.target = target]
    /\ fpc' = "done"

\* `cargo metadata`, the root package and the filter over its targets
FindFilter ==
    /\ fpc = "idle"
    /\ \/ FindFinish(NoFound, "MetadataFailed", NoTarget)
       \/ \E project \in FindProjects :
             /\ fcur' = [NoFound EXCEPT !.project = project,
                                        !.targets = LibraryTargets(project)]
             /\ fpc' = "match"
    /\ UNCHANGED <<cfgVars, stubVars, buildVars>>

\* the match on the number of library targets
FindMatch ==
    /\ fpc = "match"
    /\ IF Len(fcur.targets) = 0 THEN FindFinish(fcur, "NoLibraryTargets", NoTarget)
       ELSE IF Len(fcur.targets) = 1 THEN FindFinish(fcur, "ok", fcur.targets[1])
       ELSE fcur' = fcur /\ fpc' = "select"
    /\ UNCHANGED <<cfgVars, stubVars, buildVars>>

\* the selection prompt over the names of the library targets
FindSelect ==
    /\ fpc = "select"
    /\ \E chosen \in (-1)..(Len(fcur.targets) - 1) :
          LET locals == [fcur EXCEPT !.chosen = chosen, !.selects = @ + 1]
          IN IF chosen < 0 THEN FindFinish(locals, "PromptFailed", NoTarget)
             ELSE FindFinish(locals, "ok", fcur.targets[chosen + 1])
    /\ UNCHANGED <<cfgVars, stubVars, buildVars>>

\* find_ext returns
FindReturn ==
    /\ fpc = "done"
    /\ fpc' = "idle"
    /\ fcur' = NoFound
    /\ UNCHANGED <<cfgVars, stubVars, buildVars>>

NextFind == FindFilter \/ FindMatch \/ FindSelect \/ FindReturn

SpecFind == InitFind /\ [][NextFind]_vars

-----------------------------------------------------------------------------
(* Properties of find_ext *)

\* a target whose crate types include a dynamic library kind
IsDynamic(target) ==
    \E i \in 1..Len(target.crate_types) :
        target.crate_types[i] = "dylib" \/ target.crate_types[i] = "cdylib"

\* the targets of the project that are dynamic libraries, in their order
Candidates == SelectSeq(fcur.project.targets, IsDynamic)

\* C14: find_ext fails with "no library targets" when no target of the
\* package builds a dynamic library, returns the only such target without
\* asking when there is one, and with more than one asks once and returns
\* the candidate at the index the selection answers; a target that builds no
\* dynamic library is never returned.
C14_Resolution ==
    /\ fcur.selects > 0 => Len(Candidates) > 1
    /\ fcur.tag = "ok" => \E i \in 1..Len(Candidates) : fcur.target = Candidates[i]
    /\ (fpc = "done" /\ fcur.project.meta = "ok") =>
          /\ Len(Candidates) = 0 =>
                fcur.tag = "NoLibraryTargets" /\ fcur.target = NoTarget
          /\ Len(Candidates) = 1 =>
                fcur.tag = "ok" /\ fcur.target = Candidates[1] /\ fcur.selects = 0
          /\ Len(Candidates) > 1 =>
                /\ fcur.selects = 1
                /\ IF fcur.chosen >= 0
                   THEN fcur.tag = "ok" /\ fcur.target = Candidates[fcur.chosen + 1]
                   ELSE fcur.tag = "PromptFailed"
          /\ LET whole == FindExt(fcur.project, fcur.chosen)
             IN /\ whole.tag = fcur.tag
                /\ whole.target = fcur.target
                /\ whole.selects = fcur.selects

\* the second of two library targets, behind a binary target, was selected
C14_Witness ==
    /\ fpc = "done"
    /\ fcur.project.targets = <<TargetA, TargetBin, TargetC>>
    /\ fcur.chosen = 1
    /\ fcur.selects = 1
    /\ fcur.tag = "ok"
    /\ fcur.target = TargetC

-----------------------------------------------------------------------------
(* Properties of the install and remove workflows *)

\* C15: an install or remove given an install directory and no ini path
\* does not run the helper and opens, creates and changes no configuration
\* file; an ini path that is given is the file the handler edits, whatever
\* the helper reports.
C15_ExplicitPaths ==
    /\ (cur.args.install_dir # None /\ cur.args.ini_path = None) =>
          /\ cur.helper = 0
          /\ cur.php_ini = None
          /\ ~cur.wrote
          /\ ini = pre.ini
    /\ (cur.args.ini_path # None /\ cur.result # "PhpConfigFailed") =>
          /\ cur.php_ini = cur.args.ini_path
          /\ \A p \in IniPaths \ {cur.args.ini_path} :
                LinesOf(ini[p]) = LinesOf(pre.ini[p])

\* an install into a given directory has ended well and the configuration
\* file of the helper, which has lines, is as it was
C15_Witness ==
    /\ pc = "done"
    /\ cur.args.kind = "install"
    /\ cur.result = "ok"
    /\ cur.copied
    /\ cur.args.install_dir = "dir_custom"
    /\ cur.args.ini_path = None
    /\ Len(LinesOf(pre.ini["ini_default"])) = 2
    /\ ini = pre.ini

-----------------------------------------------------------------------------
(* Errors of the version gate *)

\* C16: a version string that does not parse, the tool's or the
\* extension's, ends the stubs run with a parse error; the incompatibility
\* error is given only when both strings parsed and the comparison rejected
\* the extension's version.
C16_ParseErrorsDistinct ==
    GateDecided =>
        /\ ~ParseVersionReq(cliVersion).ok => scur.gate = "CliVersionParse"
        /\ (ParseVersionReq(cliVersion).ok /\ ~ParseVersion(scur.ext_version).ok)
              => scur.gate = "ExtVersionParse"
        /\ scur.gate = "Incompatible" =>
              /\ ParseVersionReq(cliVersion).ok
              /\ ParseVersion(scur.ext_version).ok
              /\ ~Matches(ParseVersionReq(cliVersion), ParseVersion(scur.ext_version))
        /\ (spc = "done" /\ scur.gate # "passed") =>
              /\ scur.result = scur.gate
              /\ scur.result \in {"CliVersionParse", "ExtVersionParse", "Incompatible"}

\* the extension reported a version that is no number and the run has
\* ended with the parse error of the extension's version
C16_Witness ==
    /\ spc = "done"
    /\ cliVersion \in FullVersions
    /\ scur.ext_version = VersionString(<<NoField>>, 0)
    /\ scur.result = "ExtVersionParse"

-----------------------------------------------------------------------------
(* The order of the steps of install and remove *)

\* the lines of every configuration file are those the handler started with
LinesUntouched ==
    \A p \in IniPaths : LinesOf(ini[p]) = LinesOf(pre.ini[p])

\* C18: install resolves and builds the target, asks, copies the library
\* and edits the configuration file, in this order: the library is copied
\* only after the answer yes and the file is edited only after the copy;
\* when the user declines or the copy fails the extension directory and the
\* lines of the configuration files are as they were.
C18_InstallOrder ==
    cur.args.kind = "install" =>
        /\ cur.ext_path # NoPath => Qualifies(cur.target)
        /\ cur.answer # None => cur.ext_path # NoPath
        /\ cur.copied => cur.answer = "yes"
        /\ libs # pre.libs => cur.copied
        /\ cur.wrote => cur.copied
        /\ ~cur.wrote => LinesUntouched
        /\ cur.result \in {"Cancelled", "PromptFailed", "CopyFailed"} =>
              /\ libs = pre.libs
              /\ ~cur.wrote
              /\ LinesUntouched

\* the user has declined an install that would have edited a configuration
\* file which has lines
C18_Witness ==
    /\ pc = "done"
    /\ cur.args.kind = "install"
    /\ cur.result = "Cancelled"
    /\ cur.php_ini = "ini_default"
    /\ Len(LinesOf(ini["ini_default"])) = 2
    /\ libs = {}

\* C19: remove checks that the library is installed, asks, deletes the
\* library and edits the configuration file, in this order: the check comes
\* before the prompt, the library is deleted only after the answer yes and
\* the file is edited only after the deletion; when the library is missing,
\* the user declines or the deletion fails, the library files and the lines
\* of the configuration files are as they were.
C19_RemoveOrder ==
    cur.args.kind = "remove" =>
        /\ cur.answer # None => cur.ext_path \in pre.libs
        /\ cur.result = "NotInstalled" => cur.answer = None
        /\ libs # pre.libs =>
              (cur.answer = "yes" /\ libs = pre.libs \ {cur.ext_path})
        /\ cur.wrote => (cur.answer = "yes" /\ cur.ext_path \notin libs)
        /\ ~cur.wrote => LinesUntouched
        /\ cur.result \in {"NotInstalled", "Cancelled", "PromptFailed", "RemoveFailed"} =>
              /\ libs = pre.libs
              /\ ~cur.wrote
              /\ LinesUntouched

\* the deletion of an installed library has failed and the configuration
\* file that names the library still does
C19_Witness ==
    /\ pc = "done"
    /\ cur.args.kind = "remove"
    /\ cur.result = "RemoveFailed"
    /\ cur.answer = "yes"
    /\ cur.ext_path \in libs
    /\ cur.php_ini \in IniPaths
    /\ RefCount(ini[cur.php_ini], FileA) >= 1

-----------------------------------------------------------------------------
(* The reference strings of install and remove *)

\* the lines install keeps of a file, and the lines remove keeps, for the
\* library file name f
InstallKeeps(lines, f) == Retained(lines, ExtLine(f))
RemoveKeeps(lines, f) == Retained(lines, f)

\* C20: install matches lines against `extension=f` and remove against f
\* alone; a line install drops is dropped by remove as well, so what remove
\* keeps of a file is what it keeps of the lines install keeps; a line an
\* install of f wrote is gone after a remove of f; and remove drops a line
\* that names f without `extension=` in front, which install keeps.
C20_RemoveDropsMore ==
    /\ \A p \in IniPaths :
          /\ RemoveKeeps(InstallKeeps(LinesOf(ini[p]), FileA), FileA)
                = RemoveKeeps(LinesOf(ini[p]), FileA)
          /\ IsSubsequence(RemoveKeeps(LinesOf(ini[p]), FileA),
                           InstallKeeps(LinesOf(ini[p]), FileA))
    /\ Rewrote("remove") =>
          /\ ReferenceString = FileA
          /\ \A i \in 1..Len(LinesOf(ini[cur.php_ini])) :
                /\ LinesOf(ini[cur.php_ini])[i] # ExtLine(FileA)
                /\ LinesOf(ini[cur.php_ini])[i] # <<";">> \o ExtLine(FileA)
    /\ Rewrote("install") => ReferenceString = ExtLine(FileA)
    /\ LET comment == << <<"; see ">> \o FileA >>
       IN InstallKeeps(comment, FileA) = comment /\ RemoveKeeps(comment, FileA) = <<>>

\* a remove has rewritten a file that held nothing but the disabled line an
\* install had written
C20_Witness ==
    /\ Rewrote("remove")
    /\ cur.php_ini = "ini_custom"
    /\ pre.ini["ini_custom"] = <<";">> \o ExtLine(FileA)
    /\ ini["ini_custom"] = <<>>

====
